---- MODULE Spec2Model ----
(***************************************************************************)
(* Model of transcribe.py: the whisper.cpp transcription front end.        *)
(*                                                                         *)
(* Text is a sequence of symbols.  A symbol is either one character        *)
(* (" ", "\n", ":") or a whole word of the program's vocabulary            *)
(* ("whisper_", "ggml_", "Hi", ...) that stands for its characters, so the *)
(* Python string operations are computed on sequences: strip, split,      *)
(* startswith, join.                                                       *)
(***************************************************************************)
EXTENDS Integers, Sequences, FiniteSets, TLC

(***************************************************************************)
(* Bounds                                                                  *)
(***************************************************************************)
MaxRawLen == 5
MaxFiles == 2

(***************************************************************************)
(* Python string operations                                                *)
(***************************************************************************)
NL == "\n"

\* str.strip() with no argument strips whitespace characters
Whitespace == {" ", NL, "\t", "\r"}

SetMin(S) == CHOOSE x \in S : \A y \in S : x <= y
SetMax(S) == CHOOSE x \in S : \A y \in S : y <= x

Strip(s) ==
    LET keep == {i \in 1..Len(s) : s[i] \notin Whitespace}
    IN  IF keep = {} THEN <<>> ELSE SubSeq(s, SetMin(keep), SetMax(keep))

\* str.startswith(p)
StartsWith(s, p) == Len(p) <= Len(s) /\ SubSeq(s, 1, Len(p)) = p

\* positions at which the substring m occurs in s
Occurrences(s, m) ==
    {i \in 1..(Len(s) - Len(m) + 1) : SubSeq(s, i, i + Len(m) - 1) = m}

\* m in s
Contains(s, m) == Occurrences(s, m) # {}

\* s.split(m)[0]: the part of s before the first occurrence of m
BeforeFirst(s, m) ==
    IF Contains(s, m) THEN SubSeq(s, 1, SetMin(Occurrences(s, m)) - 1) ELSE s

\* s.split('\n')
RECURSIVE SplitLines(_)
SplitLines(s) ==
    IF Contains(s, <<NL>>)
    THEN LET i == SetMin(Occurrences(s, <<NL>>))
         IN  <<SubSeq(s, 1, i - 1)>> \o SplitLines(SubSeq(s, i + 1, Len(s)))
    ELSE <<s>>

\* '\n'.join(lines)
RECURSIVE JoinLines(_)
JoinLines(lines) ==
    IF lines = <<>> THEN <<>>
    ELSE IF Len(lines) = 1 THEN lines[1]
    ELSE lines[1] \o <<NL>> \o JoinLines(Tail(lines))

\* concatenation of a sequence of strings
RECURSIVE Concat(_)
Concat(ss) == IF ss = <<>> THEN <<>> ELSE ss[1] \o Concat(Tail(ss))

(***************************************************************************)
(* Output normalisation (transcribe_file, lines 381-400)                   *)
(***************************************************************************)
log_prefixes ==
    { <<"whisper_">>, <<"ggml_">>, <<"main", ":">>, <<"output_">>,
      <<"log_mel_spectrogram">>, <<"encode_fallback">> }

progress_string_marker == <<"whisper_", "print_progress_callback">>

\* the prefixes are looked for in the line as it stands
IsLogLineUntrimmed(line) == \E p \in log_prefixes : StartsWith(line, p)

\* line.strip().startswith(log_prefixes)
IsLogLine(line) == \E p \in log_prefixes : StartsWith(Strip(line), p)

\* the line kept whole: the progress marker is not cut off
CleanedLineUncut(line) == line

\* cleaned_line = line.split(progress_string_marker)[0]
CleanedLine(line) == BeforeFirst(line, progress_string_marker)

\* the loop over lines: log lines are skipped, the others are cut at the
\* marker and kept when something other than whitespace is left
RECURSIVE TranscriptLines(_)
TranscriptLines(lines) ==
    IF lines = <<>> THEN <<>>
    ELSE LET line == lines[1]
             rest == TranscriptLines(Tail(lines))
         IN  IF IsLogLine(line) THEN rest
             ELSE IF Strip(CleanedLine(line)) # <<>>
                  THEN <<CleanedLine(line)>> \o rest
                  ELSE rest

\* the joined lines are returned without the closing strip()
NormalizeTextUntrimmed(output_capture) ==
    JoinLines(TranscriptLines(SplitLines(Strip(output_capture))))

\* text = '\n'.join(transcript_lines).strip()
NormalizeText(output_capture) ==
    Strip(JoinLines(TranscriptLines(SplitLines(Strip(output_capture)))))

\* str.lower() on the symbols that occur in the engine's output
LowerSymbol(c) ==
    CASE c = "Detected Language" -> "detected language"
      [] c = "En" -> "en"
      [] OTHER -> c

LowerText(s) == [k \in 1..Len(s) |-> LowerSymbol(s[k])]

\* "detected language:"
language_marker == <<"detected language", ":">>

\* line.split(':')[-1]
LastField(line) ==
    LET colons == {k \in 1..Len(line) : line[k] = ":"}
    IN  IF colons = {} THEN line
        ELSE SubSeq(line, SetMax(colons) + 1, Len(line))

\* the language is read from the lowered line, so its case is lost
ExtractLanguageLowered(output_capture) ==
    LET lines == SplitLines(output_capture)
        hits == {k \in 1..Len(lines) : Contains(LowerText(lines[k]), language_marker)}
    IN  IF hits = {} THEN <<"unknown">>
        ELSE Strip(LastField(LowerText(lines[SetMin(hits)])))

\* transcribe_file, lines 402-407: "unknown", or the last field of the
\* first line that holds the marker
ExtractLanguage(output_capture) ==
    IF Contains(LowerText(output_capture), language_marker)
    THEN LET lines == SplitLines(output_capture)
             hits == {k \in 1..Len(lines) :
                        Contains(LowerText(lines[k]), language_marker)}
         IN  IF hits = {} THEN <<"unknown">>
             ELSE Strip(LastField(lines[SetMin(hits)]))
    ELSE <<"unknown">>


(***************************************************************************)
(* Paths (pathlib.Path): parent directory, stem as a sequence of name      *)
(* parts, suffix.  None stands for Python's None in a path-valued slot.    *)
(***************************************************************************)
MkPath(parent, stem, suffix) == [parent |-> parent, stem |-> stem, suffix |-> suffix]

None == MkPath("None", <<>>, "")

\* str.lower() on the suffixes that occur
Lower(suffix) ==
    CASE suffix = ".WAV" -> ".wav"
      [] suffix = ".MP3" -> ".mp3"
      [] OTHER -> suffix

SUPPORTED_EXTENSIONS == {".mp3", ".wav", ".m4a", ".flac", ".ogg", ".wma"}

(***************************************************************************)
(* The files of the host the inputs are drawn from, and what the host's    *)
(* file system says about each                                             *)
(***************************************************************************)
AudioA == MkPath("audio", <<"a">>, ".mp3")
AudioA2 == MkPath("audio", <<"a">>, ".WAV")
Gone == MkPath("audio", <<"gone">>, ".mp3")
Folder == MkPath("audio", <<"folder">>, ".mp3")
Notes == MkPath("audio", <<"notes">>, ".txt")
Locked == MkPath("audio", <<"locked">>, ".mp3")
OutTxt == MkPath(".", <<"out">>, ".txt")

InputFiles == {AudioA, AudioA2, Gone, Folder, Notes, Locked}

PathExists(p) == p # Gone
PathIsFile(p) == p # Folder
PathReadable(p) == p # Locked

FileLists == UNION {[1..n -> InputFiles] : n \in 1..MaxFiles}

(***************************************************************************)
(* FileManager                                                             *)
(***************************************************************************)
\* the check validate_input_files makes of one path: the exception it raises
ValidationError(path) ==
    IF ~PathExists(path) THEN "FileNotFoundError"
    ELSE IF ~PathIsFile(path) THEN "ValueError"
    ELSE IF Lower(path.suffix) \notin SUPPORTED_EXTENSIONS THEN "ValueError"
    ELSE IF ~PathReadable(path) THEN "ValueError"
    ELSE "none"

\* only the first file is looked at
FirstInvalidHeadOnly(file_paths) ==
    IF ValidationError(file_paths[1]) # "none" THEN 1 ELSE 0

\* validate_input_files: the index of the first file that fails, 0 if none
FirstInvalid(file_paths) ==
    LET bad == {k \in 1..Len(file_paths) : ValidationError(file_paths[k]) # "none"}
    IN  IF bad = {} THEN 0 ELSE SetMin(bad)

\* generate_output_path
generate_output_path(input_path, custom_output, model_name, include_timestamps) ==
    IF custom_output # None THEN custom_output
    ELSE LET suffixes == (IF model_name # "" THEN <<model_name>> ELSE <<>>)
                         \o (IF include_timestamps THEN <<"timestamps">> ELSE <<>>)
             suffix_str == Concat([k \in 1..Len(suffixes) |-> <<"-", suffixes[k]>>])
         IN  IF suffixes # <<>>
             THEN MkPath(input_path.parent, input_path.stem \o suffix_str, ".txt")
             ELSE MkPath(input_path.parent, input_path.stem, ".txt")

(***************************************************************************)
(* The engine command line (transcribe_file, lines 302-325 and 338-339)    *)
(***************************************************************************)
\* what os.cpu_count() returns on the hosts considered; None is written 0
CpuCounts == {0, 1, 4, 8, 9, 16}

Hosts == [cpu_count : CpuCounts, stdbuf : BOOLEAN]

\* the host of the whole runs
RunHosts == {[cpu_count |-> 16, stdbuf |-> TRUE]}

\* str(n) of a thread count
Numerals ==
    <<"1", "2", "3", "4", "5", "6", "7", "8", "9", "10", "11", "12", "13", "14",
      "15", "16">>

Str(n) == Numerals[n]

\* os.cpu_count() or 4
CoresOr4(cpu_count) == IF cpu_count = 0 THEN 4 ELSE cpu_count

Min(a, b) == IF a <= b THEN a ELSE b

\* the cap of 8 is left out
ThreadCountUncapped(cuda_available, cpu_count) == CoresOr4(cpu_count)

\* lines 308 and 317: min(8, os.cpu_count() or 4) with CUDA, else
\* os.cpu_count() or 4
ThreadCount(cuda_available, cpu_count) ==
    IF cuda_available THEN Min(8, CoresOr4(cpu_count)) ELSE CoresOr4(cpu_count)

\* str(path) of the audio files
PathStr(p) ==
    CASE p = AudioA -> "audio/a.mp3"
      [] p = AudioA2 -> "audio/a.WAV"
      [] OTHER -> "?"

\* str(model_dir / f"ggml-{model_name}.bin")
ModelPath(model_name) ==
    CASE model_name = "base" -> "models/ggml-base.bin"
      [] model_name = "tiny" -> "models/ggml-tiny.bin"
      [] OTHER -> "models/ggml-.bin"

\* lines 302-305 and the -t pair of line 308 or 317
CmdHead(whisper_cpp_path, model_path, input_path, cuda_available, cpu_count) ==
    <<whisper_cpp_path, "-m", model_path, "-f", PathStr(input_path), "--output-txt",
      "-t", Str(ThreadCount(cuda_available, cpu_count))>>

\* line 313
CmdGpuLayers == <<"--gpu-layers", "999">>

\* lines 319-325
CmdTail(include_timestamps, verbose_mode) ==
    (IF ~include_timestamps THEN <<"--no-timestamps">> ELSE <<>>)
    \o <<"--no-prints", "--language", "auto">>
    \o (IF verbose_mode THEN <<"--print-progress">> ELSE <<>>)

\* lines 338-339: cmd = ['stdbuf', '-o0'] + cmd in the streaming branch
LaunchedCmd(command, verbose_mode, stdbuf) ==
    IF verbose_mode /\ stdbuf THEN <<"stdbuf", "-o0">> \o command ELSE command

(***************************************************************************)
(* What the engine writes: a sequence of chunks, each one line written to  *)
(* standard output or to standard error, in the order it was written       *)
(***************************************************************************)
Out(line) == [stream |-> "stdout", line |-> line]
Err(line) == [stream |-> "stderr", line |-> line]

Emissions ==
    { <<>>,
      <<Out(<<"Hi">>)>>,
      <<Err(<<"ggml_", "init">>), Out(<<"Hi">>)>> }

\* the text a pipe carries: every line of the chosen chunks, newline-terminated
PipeText(chunks) == Concat([k \in 1..Len(chunks) |-> chunks[k].line \o <<NL>>])

OnStream(chunks, stream) == SelectSeq(chunks, LAMBDA c : c.stream = stream)

\* subprocess.run(capture_output=True): result.stdout + result.stderr
SilentCapture(chunks) ==
    PipeText(OnStream(chunks, "stdout")) \o PipeText(OnStream(chunks, "stderr"))

\* Popen(stdout=PIPE, stderr=STDOUT) read line by line: output_capture += line
StreamingCapture(chunks) == PipeText(chunks)

\* CalledProcessError.output: subprocess.run(check=True) sets it to stdout;
\* the streaming branch passes output=output_capture
ErrorOutput(chunks, verbose_mode) ==
    IF verbose_mode THEN StreamingCapture(chunks)
    ELSE PipeText(OnStream(chunks, "stdout"))

\* the TranscriptionError built from a CalledProcessError
NoError == [returncode |-> 0, output |-> <<>>]
MakeTranscriptionError(returncode, output) ==
    [returncode |-> returncode, output |-> Strip(output)]

(***************************************************************************)
(* State                                                                   *)
(***************************************************************************)
VARIABLES
    config,          \* TranscriptionConfig
    verbose,         \* args.verbose / TranscriptionService.verbose
    files,           \* args.files
    pc,              \* position of the main thread
    exc,             \* exception propagating to main's handlers
    exit_code,       \* process exit status, -1 while running
    report,          \* the closing message main prints
    launched,        \* external processes launched so far
    created,         \* files and directories created outside save_results
    cuda,            \* gpu_capabilities['cuda']
    validated,       \* validated_files of process_files
    i,               \* index of the file being processed (1-based)
    results,         \* results of process_files
    pf_outcome,      \* process_files: "none", "returned" or "raised"
    running,         \* ProgressSpinner.running
    thread,          \* spinner thread: "none", "check", "print", "done"
    emitted,         \* what the engine wrote, while transcribe_file runs
    output_capture,  \* output_capture, a local of transcribe_file
    last_error,      \* the TranscriptionError transcribe_file is raising
    engine_calls,    \* indices of the files the engine was invoked for
    logged,          \* indices of the files whose failure was logged
    failed,          \* indices of the files whose transcription failed
    interrupted_at,  \* index of the file during which the user first pressed Ctrl-C
    invalid_input,   \* validation rejected the inputs
    written,         \* files written by save_results, in order
    warned,          \* input files save_results printed a warning for, in order
    model_file,      \* models/ggml-<model>.bin on disk: "absent", "empty" or "ok"
    resolution,      \* what _ensure_model_exists did
    gpu_probe,       \* how the nvidia-smi probe ended, "none" before it
    host,            \* the machine: os.cpu_count() (0 for None), stdbuf on PATH
    transcriber,     \* whisper_cpp_path and model_path of WhisperCppTranscriber
    init_calls,      \* how often model resolution and detection have run
    cmd,             \* cmd of transcribe_file, until the engine process has ended
    engine_alive,    \* indices of the files whose engine process is running
    raw,             \* input of the normaliser when run on its own
    text,            \* its result
    language         \* the language extracted from the same output

runVars == <<config, verbose, files, pc, exc, exit_code, report, launched, created,
             cuda, validated, i, results, pf_outcome, running, thread, emitted,
             output_capture, last_error, engine_calls, logged, failed, interrupted_at,
             invalid_input, written, warned, model_file, resolution, gpu_probe,
             host, transcriber, init_calls, cmd, engine_alive>>
normVars == <<raw, text, language>>
vars == <<runVars, normVars>>

Unset == <<"unset">>

\* WhisperCppTranscriber before its constructor has run
NoTranscriber == [whisper_cpp_path |-> "", model_path |-> ""]

\* _ensure_model_exists has not run
NoResolution ==
    [status |-> "none", helper_calls |-> 0, helper_args |-> <<>>,
     script_existed |-> FALSE, script_written |-> FALSE]

Configs ==
    [model_name : {"base"}, include_timestamps : BOOLEAN,
     batch_mode : BOOLEAN, custom_output : {None, OutTxt}]

RunInit ==
    /\ config \in Configs
    /\ verbose \in BOOLEAN
    /\ files \in FileLists
    /\ pc = "main"
    /\ exc = "none"
    /\ exit_code = -1
    /\ report = "none"
    /\ launched = {}
    /\ created = {}
    /\ cuda = FALSE
    /\ validated = <<>>
    /\ i = 0
    /\ results = <<>>
    /\ pf_outcome = "none"
    /\ running = FALSE
    /\ thread = "none"
    /\ emitted = <<>>
    /\ output_capture = <<>>
    /\ last_error = NoError
    /\ engine_calls = <<>>
    /\ logged = <<>>
    /\ failed = {}
    /\ interrupted_at = 0
    /\ invalid_input = FALSE
    /\ written = <<>>
    /\ warned = <<>>
    /\ model_file \in {"absent", "empty", "ok"}
    /\ resolution = NoResolution
    /\ gpu_probe = "none"
    /\ host \in RunHosts
    /\ transcriber = NoTranscriber
    /\ init_calls = [resolve |-> 0, detect |-> 0]
    /\ cmd = <<>>
    /\ engine_alive = {}

Init == RunInit /\ raw = <<>> /\ text = Unset /\ language = Unset

\* an exception reaches the handlers of main
Raise(e) == pc' = "main_except" /\ exc' = e

(***************************************************************************)
(* main, up to the construction of the service                             *)
(***************************************************************************)
\* the check made only where the single-file warning is given
BatchNeedsOutputSingleFile ==
    config.batch_mode /\ config.custom_output = None /\ Len(files) = 1

\* main, line 644: args.batch and not args.output
BatchNeedsOutput == config.batch_mode /\ config.custom_output = None

\* main, lines 623-646: the batch check; sys.exit(1) leaves through neither
\* except clause
MainStart ==
    /\ pc = "main"
    /\ IF BatchNeedsOutput
       THEN /\ pc' = "exited"
            /\ exit_code' = 1
            /\ report' = "batch_requires_output"
       ELSE /\ pc' = "find_whisper"
            /\ UNCHANGED <<exit_code, report>>
    /\ UNCHANGED <<config, verbose, files, exc, launched, created, cuda, validated, i,
                   results, pf_outcome, running, thread, emitted, output_capture,
                   last_error, engine_calls, logged, failed, interrupted_at,
                   invalid_input, written, normVars,
                   warned, model_file, resolution, gpu_probe,
                   host, transcriber, init_calls, cmd, engine_alive>>

\* WhisperCppTranscriber._find_whisper_cpp: one of the known places, else `which`
FindWhisperCpp ==
    /\ pc = "find_whisper"
    /\ \E found \in {"local", "which_ok", "which_fail"} :
          /\ launched' = IF found = "local" THEN launched ELSE launched \cup {"which"}
          /\ transcriber' =
                [transcriber EXCEPT !.whisper_cpp_path =
                    CASE found = "local" -> "./whisper-cli"
                      [] found = "which_ok" -> "/usr/bin/whisper-cli"
                      [] OTHER -> @]
          /\ IF found = "which_fail"
             THEN Raise("TranscriptionError")
             ELSE pc' = "ensure_model" /\ exc' = exc
    /\ UNCHANGED <<config, verbose, files, exit_code, report, created, cuda, validated,
                   i, results, pf_outcome, running, thread, emitted, output_capture,
                   last_error, engine_calls, logged, failed, interrupted_at,
                   invalid_input, written, normVars,
                   warned, model_file, resolution, gpu_probe,
                   host, init_calls, cmd, engine_alive>>

\* WhisperCppTranscriber._ensure_model_exists; the helper, when it leaves a
\* model file, leaves a complete one
EnsureModelExists ==
    /\ pc = "ensure_model"
    /\ init_calls' = [init_calls EXCEPT !.resolve = @ + 1]
    /\ \E dir_exists \in BOOLEAN, script_exists \in BOOLEAN,
          helper \in {"cannot_run", "nonzero", "ok_file", "ok_nofile"} :
          /\ script_exists => dir_exists
          /\ model_file # "absent" => dir_exists
          /\ IF model_file # "absent"
             THEN /\ pc' = "detect_gpu"
                  /\ resolution' = [NoResolution EXCEPT !.status = "present"]
                  /\ transcriber' = [transcriber EXCEPT
                                       !.model_path = ModelPath(config.model_name)]
                  /\ UNCHANGED <<exc, launched, created, model_file>>
             ELSE
               /\ created' = created
                               \cup (IF dir_exists THEN {} ELSE {"models_dir"})
                               \cup (IF script_exists THEN {} ELSE {"download_script"})
                               \cup (IF helper = "ok_file" THEN {"model_file"} ELSE {})
               /\ launched' = IF helper = "cannot_run" THEN launched
                              ELSE launched \cup {"helper"}
               /\ model_file' = IF helper = "ok_file" THEN "ok" ELSE "absent"
               /\ resolution' =
                     [status |-> CASE helper = "cannot_run" -> "cannot_run"
                                   [] helper = "nonzero" -> "nonzero"
                                   [] helper = "ok_nofile" -> "still_absent"
                                   [] helper = "ok_file" -> "acquired",
                      helper_calls |-> 1,
                      helper_args |-> <<config.model_name>>,
                      script_existed |-> script_exists,
                      script_written |-> ~script_exists]
               /\ transcriber' =
                     IF helper = "ok_file"
                     THEN [transcriber EXCEPT
                             !.model_path = ModelPath(config.model_name)]
                     ELSE transcriber
               /\ CASE helper = "cannot_run" -> Raise("OSError")
                    [] helper = "nonzero" -> Raise("TranscriptionError")
                    [] helper = "ok_nofile" -> Raise("TranscriptionError")
                    [] helper = "ok_file" -> pc' = "detect_gpu" /\ exc' = exc
    /\ UNCHANGED <<config, verbose, files, exit_code, report, cuda, validated, i,
                   results, pf_outcome, running, thread, emitted, output_capture,
                   last_error, engine_calls, logged, failed, interrupted_at,
                   invalid_input, written, normVars, warned, gpu_probe,
                   host, cmd, engine_alive>>

\* WhisperCppTranscriber._detect_gpu_capabilities, then main calls process_files
DetectGpuCapabilities ==
    /\ pc = "detect_gpu"
    /\ \E probe \in {"absent", "cannot_exec", "nonzero", "zero"} :
          /\ launched' = IF probe \in {"nonzero", "zero"}
                         THEN launched \cup {"nvidia-smi"} ELSE launched
          /\ cuda' = (probe = "zero")
          /\ gpu_probe' = probe
          /\ init_calls' = [init_calls EXCEPT !.detect = @ + 1]
          /\ IF probe = "cannot_exec"
             THEN Raise("OSError")
             ELSE pc' = "process_files" /\ exc' = exc
    /\ UNCHANGED <<config, verbose, files, exit_code, report, created, validated, i,
                   results, pf_outcome, running, thread, emitted, output_capture,
                   last_error, engine_calls, logged, failed, interrupted_at,
                   invalid_input, written, normVars,
                   warned, model_file, resolution,
                   host, transcriber, cmd, engine_alive>>

(***************************************************************************)
(* TranscriptionService.process_files                                      *)
(***************************************************************************)
\* lines 452-463: validation of all the inputs
ProcessFilesValidate ==
    /\ pc = "process_files"
    /\ IF FirstInvalid(files) # 0
       THEN /\ Raise(ValidationError(files[FirstInvalid(files)]))
            /\ pf_outcome' = "raised"
            /\ invalid_input' = TRUE
            /\ UNCHANGED <<validated, i>>
       ELSE /\ validated' = files
            /\ i' = 1
            /\ pc' = "loop"
            /\ UNCHANGED <<exc, pf_outcome, invalid_input>>
    /\ UNCHANGED <<config, verbose, files, exit_code, report, launched, created, cuda,
                   results, running, thread, emitted, output_capture, last_error,
                   engine_calls, logged, failed, interrupted_at, written, normVars,
                   warned, model_file, resolution, gpu_probe,
                   host, transcriber, init_calls, cmd, engine_alive>>

\* the accelerator is probed again for every file
TranscribeBeginRedetecting ==
    /\ pc = "loop"
    /\ i <= Len(validated)
    /\ \E probe \in {"absent", "nonzero", "zero"} :
          /\ cuda' = (probe = "zero")
          /\ gpu_probe' = probe
          /\ pc' = IF probe = "zero" THEN "help_probe" ELSE "launch"
          /\ cmd' = CmdHead(transcriber.whisper_cpp_path, transcriber.model_path,
                            validated[i], probe = "zero", host.cpu_count)
                     \o (IF probe = "zero" THEN <<>>
                         ELSE CmdTail(config.include_timestamps, verbose))
    /\ init_calls' = [init_calls EXCEPT !.detect = @ + 1]
    /\ UNCHANGED <<config, verbose, files, exc, exit_code, report, launched, created,
                   validated, i, results, pf_outcome, running, thread, emitted,
                   output_capture, last_error, engine_calls, logged, failed,
                   interrupted_at, invalid_input, written, normVars,
                   warned, model_file, resolution,
                   host, transcriber, engine_alive>>

\* transcribe_file, lines 283-305: the next file is taken up
TranscribeBegin ==
    /\ pc = "loop"
    /\ i <= Len(validated)
    /\ pc' = IF cuda THEN "help_probe" ELSE "launch"
    /\ cmd' = CmdHead(transcriber.whisper_cpp_path, transcriber.model_path,
                      validated[i], cuda, host.cpu_count)
               \o (IF cuda THEN <<>> ELSE CmdTail(config.include_timestamps, verbose))
    /\ UNCHANGED <<config, verbose, files, exc, exit_code, report, launched, created,
                   cuda, validated, i, results, pf_outcome, running, thread, emitted,
                   output_capture, last_error, engine_calls, logged, failed,
                   interrupted_at, invalid_input, written, normVars,
                   warned, model_file, resolution, gpu_probe,
                   host, transcriber, init_calls, engine_alive>>

\* transcribe_file, lines 307-315: the --help probe inside try/except: pass;
\* the bare except also takes a KeyboardInterrupt raised while the probe runs
HelpProbe ==
    /\ pc = "help_probe"
    /\ \E probe \in {"flag", "noflag", "oserror", "interrupt"} :
          /\ launched' = IF probe = "oserror" THEN launched
                         ELSE launched \cup {"engine_help"}
          /\ interrupted_at' = IF probe = "interrupt" /\ interrupted_at = 0 THEN i
                               ELSE interrupted_at
          /\ cmd' = cmd \o (IF probe = "flag" THEN CmdGpuLayers ELSE <<>>)
                         \o CmdTail(config.include_timestamps, verbose)
    /\ pc' = "launch"
    /\ UNCHANGED <<config, verbose, files, exc, exit_code, report, created, cuda,
                   validated, i, results, pf_outcome, running, thread, emitted,
                   output_capture, last_error, engine_calls, logged, failed,
                   invalid_input, written, normVars,
                   warned, model_file, resolution, gpu_probe,
                   host, transcriber, init_calls, engine_alive>>

\* transcribe_file, lines 327-350 and 365: the spinner is started in silent
\* mode, then the engine process is created; an OSError of the launch is
\* caught by nothing before main
EngineLaunch ==
    /\ pc = "launch"
    /\ running' = IF verbose THEN running ELSE TRUE
    /\ thread' = IF verbose THEN thread ELSE "check"
    /\ engine_calls' = Append(engine_calls, i)
    /\ \E started \in BOOLEAN :
          IF started
          THEN /\ launched' = launched \cup {"engine"}
               /\ cmd' = LaunchedCmd(cmd, verbose, host.stdbuf)
               /\ engine_alive' = engine_alive \cup {i}
               /\ pc' = "engine_wait"
               /\ UNCHANGED <<exc, pf_outcome, failed>>
          ELSE /\ Raise("OSError")
               /\ pf_outcome' = "raised"
               /\ failed' = failed \cup {i}
               /\ cmd' = <<>>
               /\ UNCHANGED <<launched, engine_alive>>
    /\ UNCHANGED <<config, verbose, files, exit_code, report, created, cuda, validated,
                   i, results, emitted, output_capture, last_error, logged,
                   interrupted_at, invalid_input, written, normVars,
                   warned, model_file, resolution, gpu_probe,
                   host, transcriber, init_calls>>

\* what transcribe_file holds as the raw output of an engine that exited 0
Capture(chunks, verbose_mode) ==
    IF verbose_mode THEN StreamingCapture(chunks) ELSE SilentCapture(chunks)

\* transcribe_file, lines 352-371: the engine ends; strict decoding of the
\* silent branch can fail, the streaming branch replaces undecodable bytes
EngineExit ==
    /\ pc = "engine_wait"
    /\ cmd' = <<>>
    /\ engine_alive' = engine_alive \ {i}
    /\ \E chunks \in Emissions, ending \in {"zero", "nonzero", "undecodable"} :
          /\ ending = "undecodable" => ~verbose
          /\ emitted' = IF ending = "undecodable" THEN emitted ELSE chunks
          /\ CASE ending = "undecodable" ->
                    /\ Raise("UnicodeDecodeError")
                    /\ pf_outcome' = "raised"
                    /\ failed' = failed \cup {i}
                    /\ UNCHANGED <<output_capture, last_error>>
               [] ending = "nonzero" ->
                    /\ pc' = "stop_err"
                    /\ last_error' = MakeTranscriptionError(1, ErrorOutput(chunks, verbose))
                    /\ output_capture' = IF verbose THEN StreamingCapture(chunks)
                                         ELSE output_capture
                    /\ UNCHANGED <<exc, pf_outcome, failed>>
               [] ending = "zero" ->
                    /\ pc' = "stop_ok"
                    /\ output_capture' = Capture(chunks, verbose)
                    /\ UNCHANGED <<exc, pf_outcome, failed, last_error>>
    /\ UNCHANGED <<config, verbose, files, exit_code, report, launched, created, cuda,
                   validated, i, results, running, thread, engine_calls, logged,
                   interrupted_at, invalid_input, written, normVars,
                   warned, model_file, resolution, gpu_probe,
                   host, transcriber, init_calls>>

\* Ctrl-C while the main thread waits for the engine: subprocess.run kills
\* the child; the Popen of the streaming branch is left to the signal
EngineInterrupt ==
    /\ pc = "engine_wait"
    /\ interrupted_at' = IF interrupted_at = 0 THEN i ELSE interrupted_at
    /\ Raise("KeyboardInterrupt")
    /\ cmd' = <<>>
    /\ engine_alive' \in (IF verbose THEN {engine_alive, {}} ELSE {{}})
    /\ pf_outcome' = "raised"
    /\ UNCHANGED <<config, verbose, files, exit_code, report, launched, created, cuda,
                   validated, i, results, running, thread, emitted, output_capture,
                   last_error, engine_calls, logged, failed, invalid_input, written,
                   normVars,
                   warned, model_file, resolution, gpu_probe,
                   host, transcriber, init_calls>>

\* stop() goes to the join with the running flag still set
StopSpinnerFlagKept ==
    /\ pc \in {"stop_ok", "stop_err"}
    /\ pc' = IF verbose THEN (IF pc = "stop_ok" THEN "finish" ELSE "raise")
             ELSE (IF pc = "stop_ok" THEN "join_ok" ELSE "join_err")
    /\ UNCHANGED <<config, verbose, files, exc, exit_code, report, launched, created,
                   cuda, validated, i, results, pf_outcome, running, thread, emitted,
                   output_capture, last_error, engine_calls, logged, failed,
                   interrupted_at, invalid_input, written, normVars,
                   warned, model_file, resolution, gpu_probe,
                   host, transcriber, init_calls, cmd, engine_alive>>

\* ProgressSpinner.stop, first half: running = False (skipped when there is
\* no spinner, lines 373 and 419)
StopSpinner ==
    /\ pc \in {"stop_ok", "stop_err"}
    /\ IF verbose
       THEN /\ pc' = IF pc = "stop_ok" THEN "finish" ELSE "raise"
            /\ UNCHANGED running
       ELSE /\ running' = FALSE
            /\ pc' = IF pc = "stop_ok" THEN "join_ok" ELSE "join_err"
    /\ UNCHANGED <<config, verbose, files, exc, exit_code, report, launched, created,
                   cuda, validated, i, results, pf_outcome, thread, emitted,
                   output_capture, last_error, engine_calls, logged, failed,
                   interrupted_at, invalid_input, written, normVars,
                   warned, model_file, resolution, gpu_probe,
                   host, transcriber, init_calls, cmd, engine_alive>>

\* stop() returns without waiting for the spinner thread
JoinSpinnerNoWait ==
    /\ pc \in {"join_ok", "join_err"}
    /\ pc' = IF pc = "join_ok" THEN "finish" ELSE "raise"
    /\ UNCHANGED <<config, verbose, files, exc, exit_code, report, launched, created,
                   cuda, validated, i, results, pf_outcome, running, thread, emitted,
                   output_capture, last_error, engine_calls, logged, failed,
                   interrupted_at, invalid_input, written, normVars,
                   warned, model_file, resolution, gpu_probe,
                   host, transcriber, init_calls, cmd, engine_alive>>

\* ProgressSpinner.stop, second half: thread.join() returns, the line is cleared
JoinSpinner ==
    /\ pc \in {"join_ok", "join_err"}
    /\ thread \in {"none", "done"}
    /\ pc' = IF pc = "join_ok" THEN "finish" ELSE "raise"
    /\ UNCHANGED <<config, verbose, files, exc, exit_code, report, launched, created,
                   cuda, validated, i, results, pf_outcome, running, thread, emitted,
                   output_capture, last_error, engine_calls, logged, failed,
                   interrupted_at, invalid_input, written, normVars,
                   warned, model_file, resolution, gpu_probe,
                   host, transcriber, init_calls, cmd, engine_alive>>

\* the explicit output is passed on in batch mode too
OutputFileForAnyMode(input_path) ==
    generate_output_path(input_path, config.custom_output,
                         config.model_name, config.include_timestamps)

\* process_files, lines 478-484
OutputFileFor(input_path) ==
    generate_output_path(input_path,
                         IF ~config.batch_mode THEN config.custom_output ELSE None,
                         config.model_name, config.include_timestamps)

\* transcribe_file, lines 376-416, and process_files, lines 477-486: the
\* completion message, the normalised text, the result appended
TranscribeFinish ==
    /\ pc = "finish"
    /\ results' = Append(results,
                         [text |-> NormalizeText(output_capture),
                          language |-> ExtractLanguage(output_capture),
                          input_file |-> validated[i],
                          output_file |-> OutputFileFor(validated[i])])
    /\ i' = i + 1
    /\ pc' = "loop"
    /\ emitted' = <<>>
    /\ output_capture' = <<>>
    /\ UNCHANGED <<config, verbose, files, exc, exit_code, report, launched, created,
                   cuda, validated, pf_outcome, running, thread, last_error,
                   engine_calls, logged, failed, interrupted_at, invalid_input, written,
                   normVars,
                   warned, model_file, resolution, gpu_probe,
                   host, transcriber, init_calls, cmd, engine_alive>>

\* the failure is never re-raised, whatever the mode
ReRaisesNever == FALSE

\* process_files, lines 490-492: if not self.config.batch_mode: raise
ReRaises == ~config.batch_mode

\* transcribe_file, lines 421-424, and process_files, lines 488-492: the
\* TranscriptionError is raised, logged, and re-raised or skipped
TranscribeRaise ==
    /\ pc = "raise"
    /\ failed' = failed \cup {i}
    /\ logged' = Append(logged, i)
    /\ IF ReRaises
       THEN /\ Raise("TranscriptionError")
            /\ pf_outcome' = "raised"
            /\ UNCHANGED i
       ELSE /\ i' = i + 1
            /\ pc' = "loop"
            /\ UNCHANGED <<exc, pf_outcome>>
    /\ emitted' = <<>>
    /\ output_capture' = <<>>
    /\ last_error' = NoError
    /\ UNCHANGED <<config, verbose, files, exit_code, report, launched, created, cuda,
                   validated, results, running, thread, engine_calls, interrupted_at,
                   invalid_input, written, normVars,
                   warned, model_file, resolution, gpu_probe,
                   host, transcriber, init_calls, cmd, engine_alive>>

\* results are returned as soon as one file has been through the loop
ProcessFilesReturnEarly ==
    /\ pc = "loop"
    /\ i > 1
    /\ pf_outcome' = "returned"
    /\ pc' = "main_after"
    /\ UNCHANGED <<config, verbose, files, exc, exit_code, report, launched, created,
                   cuda, validated, i, results, running, thread, emitted,
                   output_capture, last_error, engine_calls, logged, failed,
                   interrupted_at, invalid_input, written, normVars,
                   warned, model_file, resolution, gpu_probe,
                   host, transcriber, init_calls, cmd, engine_alive>>

\* process_files, lines 494-503: the loop is over, results are returned
ProcessFilesReturn ==
    /\ pc = "loop"
    /\ i > Len(validated)
    /\ pf_outcome' = "returned"
    /\ pc' = "main_after"
    /\ UNCHANGED <<config, verbose, files, exc, exit_code, report, launched, created,
                   cuda, validated, i, results, running, thread, emitted,
                   output_capture, last_error, engine_calls, logged, failed,
                   interrupted_at, invalid_input, written, normVars,
                   warned, model_file, resolution, gpu_probe,
                   host, transcriber, init_calls, cmd, engine_alive>>

(***************************************************************************)
(* TranscriptionService.save_results                                       *)
(***************************************************************************)
Divider == "=================================================="

\* _save_individual_results: one file per result that has text
IndividualWrites(rs) ==
    LET keep == SelectSeq(rs, LAMBDA r : r.text # <<>>)
    IN  [k \in 1..Len(keep) |->
            [path |-> keep[k].output_file, content |-> keep[k].text \o <<NL>>]]

\* _save_individual_results, line 531: the results that are only warned about
IndividualWarnings(rs) ==
    LET skip == SelectSeq(rs, LAMBDA r : r.text = <<>>)
    IN  [k \in 1..Len(skip) |-> skip[k].input_file]

\* the divider is written after every entry, the last one included
ConcatenatedContentTrailingDivider(rs) ==
    Concat([k \in 1..Len(rs) |->
              <<"=== ">> \o rs[k].input_file.stem \o <<rs[k].input_file.suffix>>
                  \o <<" ===", NL>>
              \o rs[k].text \o <<NL>>
              \o <<NL, Divider, NL, NL>>])

\* _save_concatenated_results: header, text, newline, and a divider between
ConcatenatedContent(rs) ==
    Concat([k \in 1..Len(rs) |->
              <<"=== ">> \o rs[k].input_file.stem \o <<rs[k].input_file.suffix>>
                  \o <<" ===", NL>>
              \o rs[k].text \o <<NL>>
              \o (IF k < Len(rs) THEN <<NL, Divider, NL, NL>> ELSE <<>>)])

SavesConcatenated == config.batch_mode /\ config.custom_output # None

\* main, lines 652-657: results are saved, or the run ends with status 1;
\* a write that fails ends the saving with a TranscriptionError
MainAfter ==
    /\ pc = "main_after"
    /\ IF results = <<>>
       THEN /\ pc' = "exited"
            /\ exit_code' = 1
            /\ report' = "no_files"
            /\ UNCHANGED <<written, warned, exc>>
       ELSE \E fail_at \in 0..Len(results) :
              /\ fail_at # 0 =>
                    IF SavesConcatenated THEN fail_at = 1
                    ELSE results[fail_at].text # <<>>
              /\ written' =
                    IF SavesConcatenated
                    THEN IF fail_at = 0
                         THEN <<[path |-> config.custom_output,
                                 content |-> ConcatenatedContent(results)]>>
                         ELSE <<>>
                    ELSE IndividualWrites(
                            IF fail_at = 0 THEN results
                            ELSE SubSeq(results, 1, fail_at - 1))
              /\ warned' =
                    IF SavesConcatenated THEN <<>>
                    ELSE IndividualWarnings(
                            IF fail_at = 0 THEN results
                            ELSE SubSeq(results, 1, fail_at - 1))
              /\ IF fail_at = 0
                 THEN /\ pc' = "exited"
                      /\ exit_code' = 0
                      /\ report' = "complete"
                      /\ UNCHANGED exc
                 ELSE /\ Raise("TranscriptionError")
                      /\ UNCHANGED <<exit_code, report>>
    /\ UNCHANGED <<config, verbose, files, launched, created, cuda, validated, i,
                   results, pf_outcome, running, thread, emitted, output_capture,
                   last_error, engine_calls, logged, failed, interrupted_at,
                   invalid_input, normVars,
                   model_file, resolution, gpu_probe,
                   host, transcriber, init_calls, cmd, engine_alive>>

\* main, lines 659-664: the two except clauses
MainExcept ==
    /\ pc = "main_except"
    /\ report' = IF exc = "KeyboardInterrupt" THEN "cancelled" ELSE "error"
    /\ exit_code' = 1
    /\ pc' = "exited"
    /\ UNCHANGED <<config, verbose, files, exc, launched, created, cuda, validated, i,
                   results, pf_outcome, running, thread, emitted, output_capture,
                   last_error, engine_calls, logged, failed, interrupted_at,
                   invalid_input, written, normVars,
                   warned, model_file, resolution, gpu_probe,
                   host, transcriber, init_calls, cmd, engine_alive>>

(***************************************************************************)
(* The spinner thread (ProgressSpinner._spin); a daemon thread, it ends    *)
(* with the process                                                        *)
(***************************************************************************)
\* while self.running
SpinCheck ==
    /\ pc # "exited"
    /\ thread = "check"
    /\ thread' = IF running THEN "print" ELSE "done"
    /\ UNCHANGED <<config, verbose, files, pc, exc, exit_code, report, launched,
                   created, cuda, validated, i, results, pf_outcome, running, emitted,
                   output_capture, last_error, engine_calls, logged, failed,
                   interrupted_at, invalid_input, written, normVars,
                   warned, model_file, resolution, gpu_probe,
                   host, transcriber, init_calls, cmd, engine_alive>>

\* the frame is printed, the thread sleeps 0.1 s
SpinPrint ==
    /\ pc # "exited"
    /\ thread = "print"
    /\ thread' = "check"
    /\ UNCHANGED <<config, verbose, files, pc, exc, exit_code, report, launched,
                   created, cuda, validated, i, results, pf_outcome, running, emitted,
                   output_capture, last_error, engine_calls, logged, failed,
                   interrupted_at, invalid_input, written, normVars,
                   warned, model_file, resolution, gpu_probe,
                   host, transcriber, init_calls, cmd, engine_alive>>

Next ==
    \/ MainStart
    \/ FindWhisperCpp
    \/ EnsureModelExists
    \/ DetectGpuCapabilities
    \/ ProcessFilesValidate
    \/ TranscribeBegin
    \/ HelpProbe
    \/ EngineLaunch
    \/ EngineExit
    \/ EngineInterrupt
    \/ StopSpinner
    \/ JoinSpinner
    \/ TranscribeFinish
    \/ TranscribeRaise
    \/ ProcessFilesReturn
    \/ MainAfter
    \/ MainExcept
    \/ SpinCheck
    \/ SpinPrint

Spec == Init /\ [][Next]_vars

(***************************************************************************)
(* Runs over one file under fair scheduling: the spinner thread, once      *)
(* able to take a step, takes it, and a join() whose thread has ended      *)
(* returns                                                                 *)
(***************************************************************************)
InitSpinner ==
    /\ Init
    /\ Len(files) = 1
    /\ ~config.include_timestamps
    /\ model_file = "ok"

SpecSpinner ==
    /\ InitSpinner
    /\ [][Next]_vars
    /\ WF_vars(SpinCheck)
    /\ WF_vars(SpinPrint)
    /\ WF_vars(JoinSpinner)

(***************************************************************************)
(* The normaliser on its own: any raw output over the vocabulary           *)
(***************************************************************************)
Vocabulary ==
    {"Hi", " ", NL, "whisper_", "print_progress_callback", "ggml_", "main", ":"}

RawOutputs == UNION {[1..n -> Vocabulary] : n \in 0..MaxRawLen}

RestState ==
    /\ config = [model_name |-> "base", include_timestamps |-> FALSE,
                 batch_mode |-> FALSE, custom_output |-> None]
    /\ verbose = FALSE
    /\ files = <<AudioA>>
    /\ pc = "normalise"
    /\ exc = "none"
    /\ exit_code = -1
    /\ report = "none"
    /\ launched = {}
    /\ created = {}
    /\ cuda = FALSE
    /\ validated = <<>>
    /\ i = 0
    /\ results = <<>>
    /\ pf_outcome = "none"
    /\ running = FALSE
    /\ thread = "none"
    /\ emitted = <<>>
    /\ output_capture = <<>>
    /\ last_error = NoError
    /\ engine_calls = <<>>
    /\ logged = <<>>
    /\ failed = {}
    /\ interrupted_at = 0
    /\ invalid_input = FALSE
    /\ written = <<>>
    /\ warned = <<>>
    /\ model_file = "ok"
    /\ resolution = NoResolution
    /\ gpu_probe = "none"
    /\ host \in RunHosts
    /\ transcriber = NoTranscriber
    /\ init_calls = [resolve |-> 0, detect |-> 0]
    /\ cmd = <<>>
    /\ engine_alive = {}

InitNorm == RestState /\ raw \in RawOutputs /\ text = Unset /\ language = Unset

\* transcribe_file, lines 381-407, applied to the raw output
Normalise ==
    /\ pc = "normalise"
    /\ text = Unset
    /\ text' = NormalizeText(raw)
    /\ language' = ExtractLanguage(raw)
    /\ UNCHANGED <<raw, runVars>>

NextNorm == Normalise

SpecNorm == InitNorm /\ [][NextNorm]_vars

(***************************************************************************)
(* The same step on outputs that announce a language                       *)
(***************************************************************************)
LanguageVocabulary ==
    {"Detected Language", "detected language", ":", "En", " ", NL, "whisper_"}

LanguageOutputs == UNION {[1..n -> LanguageVocabulary] : n \in 0..MaxRawLen}

InitLang == RestState /\ raw \in LanguageOutputs /\ text = Unset /\ language = Unset

SpecLang == InitLang /\ [][NextNorm]_vars

(***************************************************************************)
(* The output path of a result: process_files, driven by any               *)
(* TranscriptionConfig, at the return of transcribe_file for its one file  *)
(***************************************************************************)
PathConfigs ==
    [model_name : {"", "base", "tiny"}, include_timestamps : BOOLEAN,
     batch_mode : BOOLEAN, custom_output : {None, OutTxt}]

InitPath ==
    /\ config \in PathConfigs
    /\ verbose = TRUE
    /\ files \in {<<AudioA>>, <<AudioA2>>}
    /\ pc = "finish"
    /\ exc = "none"
    /\ exit_code = -1
    /\ report = "none"
    /\ launched = {"engine"}
    /\ created = {}
    /\ cuda = FALSE
    /\ validated = files
    /\ i = 1
    /\ results = <<>>
    /\ pf_outcome = "none"
    /\ running = FALSE
    /\ thread = "none"
    /\ emitted \in {<<>>, <<Out(<<"Hi">>)>>}
    /\ output_capture = StreamingCapture(emitted)
    /\ last_error = NoError
    /\ engine_calls = <<1>>
    /\ logged = <<>>
    /\ failed = {}
    /\ interrupted_at = 0
    /\ invalid_input = FALSE
    /\ written = <<>>
    /\ warned = <<>>
    /\ model_file = "ok"
    /\ resolution = [NoResolution EXCEPT !.status = "present"]
    /\ gpu_probe = "absent"
    /\ host \in RunHosts
    /\ transcriber = [whisper_cpp_path |-> "./whisper-cli",
                      model_path |-> ModelPath(config.model_name)]
    /\ init_calls = [resolve |-> 1, detect |-> 1]
    /\ cmd = <<>>
    /\ engine_alive = {}
    /\ raw = <<>>
    /\ text = Unset
    /\ language = Unset

NextPath == TranscribeFinish

SpecPath == InitPath /\ [][NextPath]_vars

(***************************************************************************)
(* The command line of the engine: transcribe_file entered for the one     *)
(* file of a service built on any host, with or without CUDA               *)
(***************************************************************************)
InitCmd ==
    /\ config \in [model_name : {"base"}, include_timestamps : BOOLEAN,
                    batch_mode : {FALSE}, custom_output : {None}]
    /\ verbose \in BOOLEAN
    /\ files \in {<<AudioA>>, <<AudioA2>>}
    /\ pc = "loop"
    /\ exc = "none"
    /\ exit_code = -1
    /\ report = "none"
    /\ cuda \in BOOLEAN
    /\ gpu_probe = IF cuda THEN "zero" ELSE "absent"
    /\ launched = IF cuda THEN {"nvidia-smi"} ELSE {}
    /\ created = {}
    /\ validated = files
    /\ i = 1
    /\ results = <<>>
    /\ pf_outcome = "none"
    /\ running = FALSE
    /\ thread = "none"
    /\ emitted = <<>>
    /\ output_capture = <<>>
    /\ last_error = NoError
    /\ engine_calls = <<>>
    /\ logged = <<>>
    /\ failed = {}
    /\ interrupted_at = 0
    /\ invalid_input = FALSE
    /\ written = <<>>
    /\ warned = <<>>
    /\ model_file = "ok"
    /\ resolution = [NoResolution EXCEPT !.status = "present"]
    /\ host \in Hosts
    /\ transcriber = [whisper_cpp_path |-> "./whisper-cli",
                      model_path |-> ModelPath(config.model_name)]
    /\ init_calls = [resolve |-> 1, detect |-> 1]
    /\ cmd = <<>>
    /\ engine_alive = {}
    /\ raw = <<>>
    /\ text = Unset
    /\ language = Unset

NextCmd == TranscribeBegin \/ HelpProbe \/ EngineLaunch

SpecCmd == InitCmd /\ [][NextCmd]_vars

(***************************************************************************)
(* Claims                                                                  *)
(***************************************************************************)
StartsWithLogPrefix(line) == \E p \in log_prefixes : StartsWith(Strip(line), p)

\* C1: for every raw engine output, no line of the text transcribe_file
\* returns starts, once trimmed, with a log prefix, and no line contains the
\* progress marker.
C1_TextFreeOfNoise ==
    text # Unset =>
        \A k \in 1..Len(SplitLines(text)) :
            /\ ~StartsWithLogPrefix(SplitLines(text)[k])
            /\ ~Contains(SplitLines(text)[k], progress_string_marker)

\* a raw output with a log line and a line carrying the progress marker has
\* been normalised to a text that is not empty
C1_Witness ==
    /\ text # Unset
    /\ text # <<>>
    /\ \E k \in 1..Len(SplitLines(raw)) : StartsWithLogPrefix(SplitLines(raw)[k])
    /\ \E k \in 1..Len(SplitLines(raw)) :
          /\ ~StartsWithLogPrefix(SplitLines(raw)[k])
          /\ Contains(SplitLines(raw)[k], progress_string_marker)

\* the input files of the results
ResultInputs == [k \in 1..Len(results) |-> results[k].input_file]

\* the validated files whose transcription did not fail, in input order
Successes ==
    LET idx == SelectSeq([k \in 1..Len(validated) |-> k], LAMBDA k : k \notin failed)
    IN  [n \in 1..Len(idx) |-> validated[idx[n]]]

\* C2: in batch mode a file whose transcription fails is logged and skipped:
\* process_files does not raise because of it, attempts the later files and
\* returns exactly the results of the files that succeeded, in input order.
C2_BatchToleratesFailures ==
    config.batch_mode =>
        /\ (failed # {} /\ pf_outcome = "raised") => exc = "KeyboardInterrupt"
        /\ \A k \in failed : \E n \in 1..Len(logged) : logged[n] = k
        /\ pf_outcome = "returned" =>
              /\ ResultInputs = Successes
              /\ Len(engine_calls) = Len(validated)

\* C3: outside batch mode the first failing file ends process_files: the
\* failure is raised to the caller, no results are returned, and the engine
\* is invoked for no later file.
C3_NonBatchAbortsOnFirstFailure ==
    (~config.batch_mode /\ failed # {}) =>
        /\ pf_outcome = "raised"
        /\ pc \in {"main_except", "exited"}
        /\ exc \in {"TranscriptionError", "OSError", "UnicodeDecodeError"}
        /\ Cardinality(failed) = 1
        /\ \A n \in 1..Len(engine_calls) : \A k \in failed : engine_calls[n] <= k

\* the first of two files failed with a non-zero exit and the run has ended
C3_Witness ==
    /\ ~config.batch_mode
    /\ Len(validated) = 2
    /\ failed = {1}
    /\ logged = <<1>>
    /\ engine_calls = <<1>>
    /\ pc = "exited"

\* C4: in both modes the raw output handed to the normaliser is the lines the
\* engine wrote, in the order it wrote them, whatever the interleaving of
\* standard output and standard error.
C4_CaptureKeepsEmissionOrder ==
    pc \in {"stop_ok", "join_ok", "finish"} => output_capture = PipeText(emitted)

\* C5: in silent mode the spinner is stopped (flag cleared, thread ended)
\* before the main thread prints anything after the engine invocation ended,
\* however it ended.
C5_SpinnerStoppedBeforeOutput ==
    (~verbose /\ pc \in {"finish", "raise", "main_except"}) =>
        /\ ~running
        /\ thread \in {"none", "done"}

\* C6: in individual mode no two results of one run have the same
\* output_file.
C6_OutputFilesDistinct ==
    ~SavesConcatenated =>
        \A a, b \in 1..Len(results) :
            a # b => results[a].output_file # results[b].output_file

\* C7: when an input fails validation, the run fails before any external
\* process has been launched and before any file or directory has been
\* created.
C7_ValidationBeforeSideEffects ==
    invalid_input => (launched = {} /\ created = {})

\* C8: a batch run without an output destination is rejected before model
\* resolution, capability detection, validation or any engine invocation,
\* and nothing is written.
C8_BatchWithoutOutputRejectedFirst ==
    (config.batch_mode /\ config.custom_output = None) =>
        /\ pc \in {"main", "exited"}
        /\ launched = {}
        /\ created = {}
        /\ validated = <<>>
        /\ engine_calls = <<>>
        /\ written = <<>>
        /\ pc = "exited" => (exit_code = 1 /\ report = "batch_requires_output")

\* a batch run of two files without an output destination has been rejected
C8_Witness ==
    /\ config.batch_mode
    /\ config.custom_output = None
    /\ Len(files) = 2
    /\ pc = "exited"
    /\ exit_code = 1

\* C9: when the engine exits with a non-zero code, the TranscriptionError
\* carries the exit code and every line the process wrote, to standard
\* output and to standard error, in silent and in streaming mode.
C9_ErrorCarriesAllOutput ==
    pc \in {"stop_err", "join_err", "raise"} =>
        /\ last_error.returncode # 0
        /\ \A k \in 1..Len(emitted) : Contains(last_error.output, emitted[k].line)

\* C10: a user interrupt while file k is processed ends the run as a
\* cancellation: from the interrupt on the run is on its way out with the
\* KeyboardInterrupt, no later file is attempted, the interrupt is not logged
\* as a failure of the file, the cancellation message is reported and the
\* exit status is not 0.
C10_InterruptCancelsRun ==
    interrupted_at # 0 =>
        /\ pc \in {"main_except", "exited"}
        /\ exc = "KeyboardInterrupt"
        /\ pc = "exited" => (report = "cancelled" /\ exit_code # 0)
        /\ \A n \in 1..Len(engine_calls) : engine_calls[n] <= interrupted_at
        /\ \A n \in 1..Len(logged) : logged[n] # interrupted_at

\* a write of save_results failed
SaveFailed == pf_outcome = "returned" /\ exc # "none"

\* C11: the run exits 0 when every file was transcribed and saved, non-zero
\* when no file was transcribed or the inputs or the configuration were
\* rejected; a batch run over valid inputs that is neither cancelled nor
\* stopped by a failing write exits 0 as soon as one file succeeded.
C11_ExitStatus ==
    pc = "exited" =>
        /\ (pf_outcome = "returned" /\ Len(results) = Len(files) /\ ~SaveFailed)
              => exit_code = 0
        /\ (results = <<>> \/ invalid_input \/ report = "batch_requires_output")
              => exit_code # 0
        /\ (config.batch_mode /\ validated # <<>> /\ results # <<>>
                /\ interrupted_at = 0 /\ ~SaveFailed)
              => (exit_code = 0 /\ report = "complete")

\* the lines of a concatenated file: per result the header line and the lines
\* of its text; between two results a blank line, the divider, a blank line
RECURSIVE EntryLines(_)
EntryLines(rs) ==
    IF rs = <<>> THEN <<>>
    ELSE <<(<<"=== ">> \o rs[1].input_file.stem \o <<rs[1].input_file.suffix>>
               \o <<" ===">>)>>
         \o SplitLines(rs[1].text)
         \o (IF Len(rs) > 1 THEN <<(<<>>), <<Divider>>, (<<>>)>> ELSE <<>>)
         \o EntryLines(Tail(rs))

\* C12: a completed concatenated save writes one file, the explicit output
\* path, whose lines are, per result in input order, the header
\* "=== <input file name> ===" and the text, with a blank line, a line of 50
\* '=' and a blank line between consecutive entries and nothing after the last.
C12_ConcatenatedFormat ==
    (pc = "exited" /\ report = "complete"
        /\ config.batch_mode /\ config.custom_output # None) =>
        written = <<[path |-> config.custom_output,
                     content |-> JoinLines(EntryLines(results)) \o <<NL>>]>>

C12_Witness ==
    /\ pc = "exited" /\ report = "complete"
    /\ config.batch_mode /\ config.custom_output # None
    /\ Len(results) = 2
    /\ results[1].text # <<>> /\ results[2].text # <<>>
    /\ results[1].input_file # results[2].input_file

\* the header _save_concatenated_results writes for a result
HeaderOf(r) == <<"=== ">> \o r.input_file.stem \o <<r.input_file.suffix>> \o <<" ===">>

\* C13: after a completed save, in either output mode, every result whose
\* text is empty was warned about and left no trace in what was written: no
\* file of its own and no entry in the concatenated file.
C13_EmptyTextSkipped ==
    (pc = "exited" /\ report = "complete") =>
        \A k \in 1..Len(results) :
            results[k].text = <<>> =>
                /\ \E n \in 1..Len(warned) : warned[n] = results[k].input_file
                /\ \A n \in 1..Len(written) :
                      /\ ~Contains(written[n].content, HeaderOf(results[k]))
                      /\ written[n].content # <<NL>>

\* C14: the language is "unknown" when no line of the raw output holds
\* "detected language:" in any letter case; otherwise it is what follows the
\* last colon of the first such line, trimmed, in its original case, whether
\* or not the normaliser discards that line as a log line.
C14_LanguageFromRawOutput ==
    language # Unset =>
        LET lines == SplitLines(raw)
            hits == {k \in 1..Len(lines) :
                       \E p \in 1..Len(lines[k]) - 1 :
                          /\ lines[k][p] \in {"detected language", "Detected Language"}
                          /\ lines[k][p + 1] = ":"}
        IN  IF hits = {} THEN language = <<"unknown">>
            ELSE LET line == lines[SetMin(hits)]
                     last == SetMax({p \in 1..Len(line) : line[p] = ":"})
                 IN  language = Strip(SubSeq(line, last + 1, Len(line)))

\* a log line, absent from the text, announces the language in capitals
C14_Witness ==
    /\ language = <<"En">>
    /\ \E k \in 1..Len(SplitLines(raw)) :
          /\ StartsWithLogPrefix(SplitLines(raw)[k])
          /\ Contains(SplitLines(raw)[k], <<"Detected Language", ":">>)
    /\ ~Contains(text, <<"En">>)

\* C15: normalising a text that is already normalised returns it unchanged.
C15_NormalisationIdempotent ==
    text # Unset => NormalizeText(text) = text

\* a raw output that normalisation changed into a text of two lines
C15_Witness ==
    /\ text # Unset
    /\ text # raw
    /\ Len(SplitLines(text)) = 2

\* the lines of output that survive: those not discarded, cut at the first
\* progress marker, that are not blank
SurvivingLines(output, Discarded(_)) ==
    LET others == SelectSeq(SplitLines(output), LAMBDA l : ~Discarded(l))
        cut == [k \in 1..Len(others) |->
                   IF Contains(others[k], progress_string_marker)
                   THEN SubSeq(others[k], 1,
                               SetMin(Occurrences(others[k], progress_string_marker)) - 1)
                   ELSE others[k]]
    IN  SelectSeq(cut, LAMBDA l : Strip(l) # <<>>)

\* a line that begins, as it stands, with a log prefix
BeginsWithLogPrefix(line) == \E p \in log_prefixes : StartsWith(line, p)

\* C16 as stated: the text is the trimmed join of the surviving raw lines,
\* a line being discarded exactly when it starts with a log prefix.
C16_ReferenceUntrimmedPrefix ==
    text # Unset =>
        text = Strip(JoinLines(SurvivingLines(raw, BeginsWithLogPrefix)))

\* C16, amended: the text is the trimmed join of the surviving raw lines, a
\* line being discarded exactly when, once trimmed of whitespace, it starts
\* with a log prefix.
C16_ReferenceTrimmedPrefix ==
    text # Unset =>
        text = Strip(JoinLines(SurvivingLines(raw, StartsWithLogPrefix)))

\* an indented log line after a line of transcript
C16_Witness ==
    /\ text # Unset
    /\ text # <<>>
    /\ \E k \in 2..Len(SplitLines(raw)) :
          /\ SplitLines(raw)[k] # <<>>
          /\ SplitLines(raw)[k][1] = " "
          /\ StartsWithLogPrefix(SplitLines(raw)[k])
          /\ \E j \in 1..(k - 1) : Contains(SplitLines(raw)[j], <<"Hi">>)

ResolutionFailed ==
    /\ resolution.status \in {"cannot_run", "nonzero", "still_absent"}
    /\ pc \in {"main_except", "exited"}

\* C18: model resolution makes one attempt: with the model present the helper
\* is not run; with the model absent the helper script is written only when
\* there was none, the helper is invoked once with the model identifier as
\* its only argument, and a helper that cannot be run, exits non-zero or
\* leaves no model file makes resolution fail with a TranscriptionError.
C18_SingleAttemptResolution ==
    /\ resolution.status = "present" =>
          (resolution.helper_calls = 0 /\ ~resolution.script_written)
    /\ resolution.status \in {"acquired", "cannot_run", "nonzero", "still_absent"} =>
          /\ resolution.helper_calls = 1
          /\ resolution.helper_args = <<config.model_name>>
          /\ resolution.script_written = ~resolution.script_existed
    /\ resolution.status = "acquired" => model_file # "absent"
    /\ ResolutionFailed => exc = "TranscriptionError"

\* C19: whenever the engine has been invoked, the model file that model
\* resolution returned exists and is not empty.
C19_ModelFileUsable ==
    engine_calls # <<>> => model_file = "ok"

\* capability detection raised, and nothing after it ran
DetectionFailed ==
    /\ gpu_probe # "none"
    /\ pf_outcome = "none"
    /\ validated = <<>>
    /\ pc \in {"main_except", "exited"}

\* C20: whatever the probe of the accelerator tool gives (tool absent, tool
\* that cannot be executed, non-zero exit, exit 0), capability detection
\* returns and the run goes on, and the accelerator is reported available
\* exactly when the tool ran and exited 0.
C20_DetectionNeverFails ==
    /\ ~DetectionFailed
    /\ gpu_probe # "none" => (cuda <=> gpu_probe = "zero")

\* the engine process has just been created with cmd
EngineInvoked == pc = "engine_wait" /\ cmd # <<>>

\* the help text advertised --gpu-layers: only then is the pair in cmd
OffloadRequested == Contains(cmd, <<"--gpu-layers", "999">>)

\* C21: the command line the engine is started with is the engine, -m and
\* the model path, -f and the audio path, -t and a thread count, then
\* --no-timestamps exactly when timestamps are not wanted, --gpu-layers 999
\* only with the accelerator, then --no-prints --language auto, then
\* --print-progress exactly when verbose, and nothing else.
C21_CommandShape ==
    EngineInvoked =>
        \E n \in 1..16 :
            cmd = <<transcriber.whisper_cpp_path, "-m", transcriber.model_path,
                    "-f", PathStr(validated[i]), "-t", Str(n)>>
                  \o (IF OffloadRequested /\ cuda
                      THEN <<"--gpu-layers", "999">> ELSE <<>>)
                  \o (IF config.include_timestamps THEN <<>>
                      ELSE <<"--no-timestamps">>)
                  \o <<"--no-prints", "--language", "auto">>
                  \o (IF verbose THEN <<"--print-progress">> ELSE <<>>)

\* C22: the engine is started with one -t pair whose value is min(8, c) with
\* the accelerator and c without, c being the host's core count, or 4 when
\* that is not known; the value is at least 1, and at most 8 with the
\* accelerator.
C22_ThreadCount ==
    EngineInvoked =>
        LET c == IF host.cpu_count = 0 THEN 4 ELSE host.cpu_count
            threads == IF cuda /\ c > 8 THEN 8 ELSE c
            at == {k \in 1..Len(cmd) : cmd[k] = "-t"}
        IN  /\ Cardinality(at) = 1
            /\ \A k \in at : k < Len(cmd) /\ cmd[k + 1] = Str(threads)
            /\ threads >= 1
            /\ cuda => threads <= 8

\* 16 cores and the accelerator: the engine is given 8 threads
C22_Witness ==
    /\ EngineInvoked
    /\ cuda
    /\ host.cpu_count = 16
    /\ Contains(cmd, <<"-t", "8">>)

\* one step of the run, as far as the transcriber's stored state goes
ServiceStateStep ==
    /\ init_calls'.resolve <= 1
    /\ init_calls'.detect <= 1
    /\ engine_calls' # <<>> => init_calls' = [resolve |-> 1, detect |-> 1]
    /\ validated # <<>> =>
          /\ init_calls' = init_calls
          /\ transcriber' = transcriber
          /\ cuda' = cuda

\* C23: model resolution and capability detection each run at most once,
\* both have run once before the first engine invocation, and from the
\* moment process_files has its validated files no step (a file
\* transcribed, a file failing) runs them again or changes the stored
\* engine path, model path or capability record.
C23_ResolvedOncePerService == [][ServiceStateStep]_vars

\* two files went through the queue, the first one failed
C23_Witness ==
    /\ pf_outcome = "returned"
    /\ Len(validated) = 2
    /\ failed = {1}
    /\ Len(results) = 1
    /\ init_calls = [resolve |-> 1, detect |-> 1]

\* the main thread is inside thread.join() of ProgressSpinner.stop
InJoin == pc \in {"join_ok", "join_err"}

\* C24: stop() has cleared the running flag when it joins; under fair
\* scheduling the spinner thread then ends and stop() returns; and whenever
\* the flag is cleared and the main thread is no longer in the join, the
\* spinner thread has ended, so that no frame follows the return of stop().
C24_SpinnerShutdown ==
    /\ [](InJoin => ~running)
    /\ []((~running /\ thread # "none" /\ ~InJoin) => thread = "done")
    /\ InJoin ~> (pc \in {"finish", "raise"} /\ thread = "done")

\* stop() reaches the join while the spinner thread is about to print a
\* frame, or before the thread has taken a single step
C24_Witness == InJoin /\ thread = "print"

\* the main thread is about to start the engine for the next file
BeforeLaunch == pc \in {"loop", "help_probe", "launch"}

\* C25: at most one engine process is running at any moment; when the
\* engine for a file is about to be started, no engine process is running
\* and the spinner thread of the file before has ended; the engine is
\* invoked for the files in input order, once each; in streaming mode no
\* spinner thread exists.
C25_SequentialProcessing ==
    /\ Cardinality(engine_alive) <= 1
    /\ BeforeLaunch => (engine_alive = {} /\ ~running /\ thread \in {"none", "done"})
    /\ \A n \in 1..Len(engine_calls) : engine_calls[n] = n
    /\ verbose => (thread = "none" /\ ~running)

\* the engine runs for the second file, in silent mode, with its spinner
C25_Witness ==
    /\ pc = "engine_wait"
    /\ ~verbose
    /\ i = 2
    /\ engine_alive = {2}
    /\ thread = "print"

C27_InvalidInputFatal ==
    (\E k \in 1..Len(files) : ValidationError(files[k]) # "none") =>
        /\ validated = <<>>
        /\ engine_calls = <<>>
        /\ results = <<>>
        /\ written = <<>>
        /\ pc \in {"main", "find_whisper", "ensure_model", "detect_gpu",
                   "process_files", "main_except", "exited"}
        /\ pf_outcome \in {"none", "raised"}
        /\ pf_outcome = "raised" =>
              /\ exc \in {"FileNotFoundError", "ValueError"}
              /\ invalid_input
        /\ pc = "exited" => exit_code # 0

\* a batch whose first file is valid and whose second is not: process_files
\* raised and the run is over
C27_Witness ==
    /\ config.batch_mode
    /\ Len(files) = 2
    /\ ValidationError(files[1]) = "none"
    /\ ValidationError(files[2]) # "none"
    /\ pf_outcome = "raised"
    /\ pc = "exited"

============================================================================
